---- MODULE Spec2Model ----
(***************************************************************************)
(* Consumer-offset collection of nri-kafka (package conoffsetcollect).     *)
(*                                                                         *)
(* Collect (collect.go:28-127) is modelled as a state machine: the         *)
(* position of the Collect goroutine, the per-group collections it runs    *)
(* (in-line in static mode, as goroutines in regex mode), the two client   *)
(* handles and the integration the metric sets are added to.               *)
(*                                                                         *)
(* Group ids are integers: 0 is the empty string "", 1.. are the names of  *)
(* the consumer groups of the cluster.  A compiled regex is the set of     *)
(* ids it matches.  An optional value (a nil-able int64 pointer) is a     *)
(* set: {} is nil and {v} is a pointer to v.                               *)
(***************************************************************************)
EXTENDS Integers, Sequences, FiniteSets, TLC

\* ------------------------------------------------------------------ bounds

\* Consumer groups of the cluster in the interleaving specification.
MaxGroups == 2

\* Goroutines running at once in the interleaving specification.
MaxTasks == 2

\* How far past the group limit the cluster of the scale specification goes.
MaxExcess == 2

\* Largest committed offset / high-water mark of the assembler specification.
MaxOffset == 2

\* Topic-partitions of the one topic the groups consume.
MaxKeys == 2

\* ------------------------------------------------------- program constants

\* collect.go:76  if numCollected > 200
GroupLimit == 200

\* collect.go:59  the zero value of a string element of make([]string, n)
EmptyId == 0

\* ----------------------------------------------------------------- helpers

\* A *regexp.Regexp: nil, or the compiled pattern given by the ids it matches.
NoRegex == [isNil |-> TRUE, matches |-> {}]

Regexp(S) == [isNil |-> FALSE, matches |-> S]

MatchString(r, id) == id \in r.matches

RealGroups == 1..MaxGroups

Range(s) == {s[i] : i \in DOMAIN s}

\* The ascending and the descending enumeration of a set of integers.
Ascending(S) ==
    [i \in 1..Cardinality(S) |->
        CHOOSE x \in S : Cardinality({y \in S : y < x}) = i - 1]

Reverse(s) == [i \in 1..Len(s) |-> s[Len(s) + 1 - i]]

\* The orders in which `for k := range m` may visit the keys S of a map:
\* Go leaves the order unspecified.  Every order of a small map; of a large
\* one, the ascending and the descending order.
RangeOrders(S) ==
    IF Cardinality(S) <= MaxGroups + 1
    THEN {s \in [1..Cardinality(S) -> S] : Range(s) = S}
    ELSE {Ascending(S), Reverse(Ascending(S))}

\* A bag of log entries: entry -> number of times it was logged.
LogAdd(l, e) ==
    IF e \in DOMAIN l THEN [l EXCEPT ![e] = @ + 1] ELSE l @@ (e :> 1)

LogCount(l, e) == IF e \in DOMAIN l THEN l[e] ELSE 0

\* ------------------------------------------------------------ lag assembly

\* A (topic, partition) key k is partition k - 1 of topic 1.
Keys == 1..MaxKeys

TopicOf(k) == 1

PartitionOf(k) == k - 1

None == {}

Some(v) == {v}

\* The nil map: what a failed read leaves in offsetData / highWaterMarks.
NilSnapshot == [k \in {} |-> None]

\* The value a snapshot holds for a key, nil when the key is not in it.
Lookup(snapshot, k) == IF k \in DOMAIN snapshot THEN snapshot[k] ELSE None

\* Mutant: a negative lag is reported as zero.
ConsumerLagClamped(offset, hwm) ==
    IF offset # None /\ hwm # None
    THEN {IF h - o < 0 THEN 0 ELSE h - o : h \in hwm, o \in offset}
    ELSE None

\* lag = high-water mark - consumer offset when both are present.
ConsumerLag(offset, hwm) ==
    IF offset # None /\ hwm # None
    THEN {h - o : h \in hwm, o \in offset}
    ELSE None

partitionOffsets(k, offsets, hwms) ==
    [Topic          |-> TopicOf(k),
     Partition      |-> PartitionOf(k),
     ConsumerOffset |-> Lookup(offsets, k),
     HighWaterMark  |-> Lookup(hwms, k),
     ConsumerLag    |-> ConsumerLag(Lookup(offsets, k), Lookup(hwms, k))]

\* Mutant: records are made for the keys of the high-water marks only.
RecordKeysOfHwms(offsets, hwms) == DOMAIN hwms

\* The keys a group's records are made for: those of either snapshot.
RecordKeys(offsets, hwms) == DOMAIN offsets \cup DOMAIN hwms

\* One record per key, in ascending key order.
populateOffsetStructs(offsets, hwms) ==
    LET ks == Ascending(RecordKeys(offsets, hwms))
    IN  [i \in 1..Len(ks) |-> partitionOffsets(ks[i], offsets, hwms)]

\* ------------------------------------------------------------------- state

VARIABLES
    regex,                  \* args.GlobalArgs.ConsumerGroupRegex: NoRegex or the ids it matches
    staticGroups,           \* the keys of args.GlobalArgs.ConsumerGroups
    clusterGroups,          \* the consumer groups the cluster holds
    faults,                 \* whether calls to the cluster and the SDK can fail
    backendOffsets,         \* the committed offsets the cluster holds, per key
    backendHwms,            \* the high-water marks the cluster holds, per key
    hanging,                \* the group ids whose offset read never returns
    pc,                     \* the statement Collect is at
    ret,                    \* "running", or what Collect returned
    failed,                 \* the calls of Collect itself that returned an error
    entered,                \* the branches of the mode selection Collect has taken
    client,                 \* the handle of zkConn.CreateClient()
    clusterAdmin,           \* the handle of zkConn.CreateClusterAdmin()
    consumerGroupList,      \* the ids handed to DescribeConsumerGroups
    consumerGroups,         \* the descriptors DescribeConsumerGroups returned
    idx,                    \* the position of the loop over consumerGroups
    numCollected,
    skippedConsumerGroups,
    unmatchedConsumerGroups,
    wg,                     \* the sync.WaitGroup's counter
    remaining,              \* static mode: the configured groups not yet visited
    cur,                    \* static mode: the group being collected, 0 for none
    job,                    \* the per-group collections: key -> record
    integration,            \* kafkaIntegration: entity name -> its metric sets
    logs                    \* the bag of log entries

envVars == <<regex, staticGroups, clusterGroups, faults, backendOffsets, backendHwms, hanging>>

handleVars == <<client, clusterAdmin>>

regexVars == <<consumerGroupList, consumerGroups, idx, numCollected,
               skippedConsumerGroups, unmatchedConsumerGroups, wg>>

staticVars == <<remaining, cur>>

vars == <<envVars, pc, ret, failed, entered, handleVars, regexVars, staticVars, job, integration, logs>>

NoHandle == [state |-> "none", closes |-> 0]

\* What a call that returns an error value may return.
Outcomes == IF faults THEN {"nil", "err"} ELSE {"nil"}

\* The cluster content of the interleaving and the scale specification: one
\* partition, with a committed offset of 1 and a high-water mark of 2.
DefaultOffsets == [k \in {1} |-> Some(1)]

DefaultHwms == [k \in {1} |-> Some(2)]

\* The state Collect starts in, for a given configuration and cluster.
Start(r, sg, cg, f, bo, bh) ==
    /\ regex = r
    /\ staticGroups = sg
    /\ clusterGroups = cg
    /\ faults = f
    /\ backendOffsets = bo
    /\ backendHwms = bh
    /\ pc = "CreateClient"
    /\ ret = "running"
    /\ failed = {}
    /\ entered = {}
    /\ client = NoHandle
    /\ clusterAdmin = NoHandle
    /\ consumerGroupList = <<>>
    /\ consumerGroups = <<>>
    /\ idx = 1
    /\ numCollected = 0
    /\ skippedConsumerGroups = <<>>
    /\ unmatchedConsumerGroups = <<>>
    /\ wg = 0
    /\ remaining = {}
    /\ cur = 0
    /\ job = <<>>
    /\ integration = <<>>
    /\ logs = <<>>

\* The goroutines a run in regex mode starts below the group limit: one per
\* matching entry of consumerGroupList.
Matching(r, cg) ==
    Cardinality(cg \cap r.matches)
        + (IF EmptyId \in r.matches THEN Cardinality(cg) ELSE 0)

\* Every configuration over a small cluster that starts at most MaxTasks
\* goroutines, with failures possible.  With a regex the static mapping is
\* empty or, for a regex that does not match "", names every group.
Init ==
    \E r \in {NoRegex} \cup {Regexp(S) : S \in SUBSET (0..MaxGroups)},
       sg \in SUBSET RealGroups,
       cg \in SUBSET RealGroups :
        /\ ~r.isNil => sg \in {{}} \cup (IF EmptyId \in r.matches THEN {} ELSE {RealGroups})
        /\ Matching(r, cg) <= MaxTasks
        /\ Start(r, sg, cg, TRUE, DefaultOffsets, DefaultHwms)
        /\ hanging = {}

\* ---------------------------------------------------- Collect: the handles

\* Mutant: the handles are closed on the successful path only.
ReturnClosingOnSuccess(e) ==
    /\ ret' = e
    /\ pc' = IF e # "nil" THEN "returned"
             ELSE IF clusterAdmin.state = "open" THEN "closeClusterAdmin"
             ELSE IF client.state = "open" THEN "closeClient"
             ELSE "returned"

\* The deferred calls run in reverse order as Collect returns e.
Return(e) ==
    /\ ret' = e
    /\ pc' = IF clusterAdmin.state = "open" THEN "closeClusterAdmin"
             ELSE IF client.state = "open" THEN "closeClient"
             ELSE "returned"

\* client, err := zkConn.CreateClient(); if err != nil { return err }
CreateClient ==
    /\ pc = "CreateClient"
    /\ \E e \in Outcomes :
         /\ failed' = IF e = "nil" THEN failed ELSE failed \cup {"CreateClient"}
         /\ IF e = "nil"
            THEN /\ client' = [state |-> "open", closes |-> 0]
                 /\ pc' = "CreateClusterAdmin"
                 /\ ret' = ret
            ELSE /\ client' = client
                 /\ Return("errCreateClient")
    /\ UNCHANGED <<envVars, entered, clusterAdmin, regexVars, staticVars, job, integration, logs>>

\* clusterAdmin, err := zkConn.CreateClusterAdmin(); if err != nil { return err }
CreateClusterAdmin ==
    /\ pc = "CreateClusterAdmin"
    /\ \E e \in Outcomes :
         /\ failed' = IF e = "nil" THEN failed ELSE failed \cup {"CreateClusterAdmin"}
         /\ IF e = "nil"
            THEN /\ clusterAdmin' = [state |-> "open", closes |-> 0]
                 /\ pc' = "selectMode"
                 /\ ret' = ret
            ELSE /\ clusterAdmin' = clusterAdmin
                 /\ Return("errCreateClusterAdmin")
    /\ UNCHANGED <<envVars, entered, client, regexVars, staticVars, job, integration, logs>>

\* defer clusterAdmin.Close(): the later defer, so it runs first.
CloseClusterAdmin ==
    /\ pc = "closeClusterAdmin"
    /\ clusterAdmin' = [state |-> "closed", closes |-> clusterAdmin.closes + 1]
    /\ \E e \in Outcomes :
         logs' = IF e = "nil" THEN logs
                 ELSE LogAdd(logs, <<"debug", "closeClusterAdmin", <<>>>>)
    /\ pc' = "closeClient"
    /\ UNCHANGED <<envVars, entered, failed, ret, client, regexVars, staticVars, job, integration>>

\* defer client.Close()
CloseClient ==
    /\ pc = "closeClient"
    /\ client' = [state |-> "closed", closes |-> client.closes + 1]
    /\ \E e \in Outcomes :
         logs' = IF e = "nil" THEN logs
                 ELSE LogAdd(logs, <<"debug", "closeClient", <<>>>>)
    /\ pc' = "returned"
    /\ UNCHANGED <<envVars, entered, failed, ret, clusterAdmin, regexVars, staticVars, job, integration>>

\* Mutant: the static branch is taken whenever no regex is configured.
SelectModeNoElse ==
    /\ pc = "selectMode"
    /\ IF ~regex.isNil
       THEN /\ pc' = "ListConsumerGroups"
            /\ entered' = entered \cup {"regex"}
            /\ UNCHANGED <<remaining, logs>>
       ELSE /\ pc' = "static"
            /\ entered' = entered \cup {"static"}
            /\ remaining' = staticGroups
            /\ logs' = LogAdd(logs, <<"warn", "deprecated", <<>>>>)
    /\ UNCHANGED <<envVars, failed, ret, handleVars, regexVars, cur, job, integration>>

\* The branch on the configuration: regex, else static groups, else an error.
SelectMode ==
    /\ pc = "selectMode"
    /\ IF ~regex.isNil
       THEN /\ pc' = "ListConsumerGroups"
            /\ entered' = entered \cup {"regex"}
            /\ UNCHANGED <<ret, remaining, logs>>
       ELSE IF staticGroups # {}
       THEN /\ pc' = "static"
            /\ entered' = entered \cup {"static"}
            /\ remaining' = staticGroups
            /\ logs' = LogAdd(logs, <<"warn", "deprecated", <<>>>>)
            /\ ret' = ret
       ELSE /\ Return("errNotConfigured")
            /\ UNCHANGED <<entered, remaining, logs>>
    /\ UNCHANGED <<envVars, failed, handleVars, regexVars, cur, job, integration>>

\* ------------------------------------------------------ Collect: regex mode

\* consumerGroupList := make([]string, len(consumerGroupMap)), then one
\* append per key of the map: len(consumerGroupMap) empty strings come first.
ConsumerGroupList(order) == [i \in 1..Len(order) |-> EmptyId] \o order

\* consumerGroupMap, err := clusterAdmin.ListConsumerGroups() and the loop
\* that builds consumerGroupList from its keys.
ListConsumerGroups ==
    /\ pc = "ListConsumerGroups"
    /\ \E e \in Outcomes :
         /\ failed' = IF e = "nil" THEN failed ELSE failed \cup {"ListConsumerGroups"}
         /\ IF e = "nil"
            THEN /\ \E order \in RangeOrders(clusterGroups) :
                      consumerGroupList' = ConsumerGroupList(order)
                 /\ pc' = "DescribeConsumerGroups"
                 /\ ret' = ret
            ELSE /\ Return("errListConsumerGroups")
                 /\ UNCHANGED consumerGroupList
    /\ UNCHANGED <<envVars, entered, handleVars, consumerGroups, idx, numCollected,
                   skippedConsumerGroups, unmatchedConsumerGroups, wg,
                   staticVars, job, integration, logs>>

\* What the cluster answers to DescribeConsumerGroups(ids): one descriptor
\* per requested id, in the order requested.
DescribeResult(ids) == [i \in 1..Len(ids) |-> [GroupId |-> ids[i]]]

\* Mutant: the error of DescribeConsumerGroups is not checked.
DescribeConsumerGroupsUnchecked ==
    /\ pc = "DescribeConsumerGroups"
    /\ \E e \in Outcomes :
         failed' = IF e = "nil" THEN failed ELSE failed \cup {"DescribeConsumerGroups"}
    /\ consumerGroups' = DescribeResult(consumerGroupList)
    /\ pc' = "loop"
    /\ UNCHANGED <<envVars, entered, ret, handleVars, consumerGroupList, idx, numCollected,
                   skippedConsumerGroups, unmatchedConsumerGroups, wg,
                   staticVars, job, integration, logs>>

\* consumerGroups, err := clusterAdmin.DescribeConsumerGroups(consumerGroupList)
DescribeConsumerGroups ==
    /\ pc = "DescribeConsumerGroups"
    /\ \E e \in Outcomes :
         /\ failed' = IF e = "nil" THEN failed ELSE failed \cup {"DescribeConsumerGroups"}
         /\ IF e = "nil"
            THEN /\ consumerGroups' = DescribeResult(consumerGroupList)
                 /\ pc' = "loop"
                 /\ ret' = ret
            ELSE /\ Return("errDescribeConsumerGroups")
                 /\ UNCHANGED consumerGroups
    /\ UNCHANGED <<envVars, entered, handleVars, consumerGroupList, idx, numCollected,
                   skippedConsumerGroups, unmatchedConsumerGroups, wg,
                   staticVars, job, integration, logs>>

\* A per-group collection that has not read anything yet.
NewJob(g, m, tp) ==
    [group           |-> g,
     mode            |-> m,
     pc              |-> "start",
     topicPartitions |-> tp,
     offsetErr       |-> "none",
     offsetData      |-> NilSnapshot,
     hwmErr          |-> "none",
     highWaterMarks  |-> NilSnapshot,
     offsetStructs   |-> <<>>,
     metricsErr      |-> "none"]

\* Mutant: the limit is checked one group late.
OverLimitLate(n) == n > GroupLimit + 1

\* numCollected > 200
OverLimit(n) == n > GroupLimit

\* Mutant: the collection is called without `go`: an iteration starts only
\* after the collection of the previous one has returned.
RegexLoopInline ==
    /\ pc = "loop"
    /\ idx <= Len(consumerGroups)
    /\ \A j \in DOMAIN job : job[j].pc = "done"
    /\ LET id == consumerGroups[idx].GroupId
       IN  IF MatchString(regex, id)
           THEN /\ numCollected' = numCollected + 1
                /\ IF OverLimit(numCollected + 1)
                   THEN /\ skippedConsumerGroups' = Append(skippedConsumerGroups, id)
                        /\ UNCHANGED <<wg, job>>
                   ELSE /\ wg' = wg + 1
                        /\ job' = job @@ (idx :> NewJob(id, "task", Keys))
                        /\ UNCHANGED skippedConsumerGroups
                /\ UNCHANGED unmatchedConsumerGroups
           ELSE /\ unmatchedConsumerGroups' = Append(unmatchedConsumerGroups, id)
                /\ UNCHANGED <<numCollected, skippedConsumerGroups, wg, job>>
    /\ idx' = idx + 1
    /\ UNCHANGED <<envVars, entered, failed, pc, ret, handleVars, consumerGroupList, consumerGroups,
                   staticVars, integration, logs>>

\* Mutant: the `continue` after the append to the skipped list is missing: a
\* group over the limit is listed as skipped and collected as well.
RegexLoopNoContinue ==
    /\ pc = "loop"
    /\ idx <= Len(consumerGroups)
    /\ LET id == consumerGroups[idx].GroupId
       IN  IF MatchString(regex, id)
           THEN /\ numCollected' = numCollected + 1
                /\ skippedConsumerGroups' =
                      IF OverLimit(numCollected + 1)
                      THEN Append(skippedConsumerGroups, id)
                      ELSE skippedConsumerGroups
                /\ wg' = wg + 1
                /\ job' = job @@ (idx :> NewJob(id, "task", Keys))
                /\ UNCHANGED unmatchedConsumerGroups
           ELSE /\ unmatchedConsumerGroups' = Append(unmatchedConsumerGroups, id)
                /\ UNCHANGED <<numCollected, skippedConsumerGroups, wg, job>>
    /\ idx' = idx + 1
    /\ UNCHANGED <<envVars, entered, failed, pc, ret, handleVars, consumerGroupList, consumerGroups,
                   staticVars, integration, logs>>

\* One iteration of `for _, consumerGroup := range consumerGroups`.
RegexLoop ==
    /\ pc = "loop"
    /\ idx <= Len(consumerGroups)
    /\ LET id == consumerGroups[idx].GroupId
       IN  IF MatchString(regex, id)
           THEN /\ numCollected' = numCollected + 1
                /\ IF OverLimit(numCollected + 1)
                   THEN /\ skippedConsumerGroups' = Append(skippedConsumerGroups, id)
                        /\ UNCHANGED <<wg, job>>
                   ELSE /\ wg' = wg + 1
                        /\ job' = job @@ (idx :> NewJob(id, "task", Keys))
                        /\ UNCHANGED skippedConsumerGroups
                /\ UNCHANGED unmatchedConsumerGroups
           ELSE /\ unmatchedConsumerGroups' = Append(unmatchedConsumerGroups, id)
                /\ UNCHANGED <<numCollected, skippedConsumerGroups, wg, job>>
    /\ idx' = idx + 1
    /\ UNCHANGED <<envVars, entered, failed, pc, ret, handleVars, consumerGroupList, consumerGroups,
                   staticVars, integration, logs>>

\* Mutant: the two lists are logged whether they are empty or not.
LogSkippedAlways ==
    /\ pc = "loop"
    /\ idx > Len(consumerGroups)
    /\ logs' = LogAdd(LogAdd(logs, <<"debug", "unmatched", unmatchedConsumerGroups>>),
                      <<"debug", "skipped", skippedConsumerGroups>>)
    /\ pc' = "wait"
    /\ UNCHANGED <<envVars, entered, failed, ret, handleVars, regexVars, staticVars, job, integration>>

\* The two aggregated log.Debug calls after the loop.
LogSkipped ==
    /\ pc = "loop"
    /\ idx > Len(consumerGroups)
    /\ LET l1 == IF Len(unmatchedConsumerGroups) > 0
                 THEN LogAdd(logs, <<"debug", "unmatched", unmatchedConsumerGroups>>)
                 ELSE logs
       IN  logs' = IF Len(skippedConsumerGroups) > 0
                   THEN LogAdd(l1, <<"debug", "skipped", skippedConsumerGroups>>)
                   ELSE l1
    /\ pc' = "wait"
    /\ UNCHANGED <<envVars, entered, failed, ret, handleVars, regexVars, staticVars, job, integration>>

\* Mutant: two independent ifs instead of if / else if: after regex mode the
\* statically configured groups are collected as well.
WaitThenStatic ==
    /\ pc = "wait"
    /\ wg = 0
    /\ IF staticGroups # {}
       THEN /\ pc' = "static"
            /\ entered' = entered \cup {"static"}
            /\ remaining' = staticGroups
            /\ logs' = LogAdd(logs, <<"warn", "deprecated", <<>>>>)
            /\ ret' = ret
       ELSE /\ Return("nil")
            /\ UNCHANGED <<entered, remaining, logs>>
    /\ UNCHANGED <<envVars, failed, handleVars, regexVars, cur, job, integration>>

\* Mutant: Collect returns without waiting for the goroutines.
WaitSkipped ==
    /\ pc = "wait"
    /\ Return("nil")
    /\ UNCHANGED <<envVars, entered, failed, handleVars, regexVars, staticVars, job, integration, logs>>

\* wg.Wait() returns once the counter is zero; Collect then returns nil.
Wait ==
    /\ pc = "wait"
    /\ wg = 0
    /\ Return("nil")
    /\ UNCHANGED <<envVars, entered, failed, handleVars, regexVars, staticVars, job, integration, logs>>

\* ------------------------------------------------- the reads and the sink

\* The offset read of collection j returns, unless the cluster never answers
\* for its group.
Answers(j) == job[j].group \notin hanging

\* What a successful read of the keys tp returns from the cluster content.
Snapshot(content, tp) == [k \in tp \cap DOMAIN content |-> content[k]]

\* Mutant: a failed offset read hands back the offsets it had read so far.
OffsetsReturnedPartial(j, e) ==
    [job EXCEPT ![j].pc = "gotOffsets",
                ![j].offsetErr = e,
                ![j].offsetData = Snapshot(backendOffsets, job[j].topicPartitions)]

\* offsetData, err := getConsumerOffsets(...): the snapshot, or an error and
\* no offsets at all.
OffsetsReturned(j, e) ==
    [job EXCEPT ![j].pc = "gotOffsets",
                ![j].offsetErr = e,
                ![j].offsetData = IF e = "nil"
                                  THEN Snapshot(backendOffsets, job[j].topicPartitions)
                                  ELSE NilSnapshot]

\* highWaterMarks, err := getHighWaterMarks(...)
HighWaterMarksReturned(j, e) ==
    [job EXCEPT ![j].pc = "gotHwms",
                ![j].hwmErr = e,
                ![j].highWaterMarks = IF e = "nil"
                                      THEN Snapshot(backendHwms, job[j].topicPartitions)
                                      ELSE NilSnapshot]

\* The records whose MarshalMetrics call may fail.
MarshalFailures(n) == IF faults THEN SUBSET (1..n) ELSE {{}}

\* kafkaIntegration.Entity(consumerGroup, ...) finds or creates the entity;
\* NewMetricSet appends to it.
AddMetricSets(integ, g, sets) ==
    IF g \in DOMAIN integ THEN [integ EXCEPT ![g] = @ \o sets] ELSE integ @@ (g :> sets)

RECURSIVE LogTimes(_, _, _)
LogTimes(l, e, n) == IF n = 0 THEN l ELSE LogTimes(LogAdd(l, e), e, n - 1)

\* setMetrics(consumerGroup, offsetData, kafkaIntegration) returning e: an
\* error of Entity adds nothing; otherwise every record gets a metric set,
\* and a record whose MarshalMetrics fails is logged and left unfilled.
setMetrics(g, offsetStructs, e, bad) ==
    IF e = "err"
    THEN /\ integration' = integration
         /\ logs' = LogAdd(logs, <<"error", "setMetrics", <<g>>>>)
    ELSE /\ integration' = AddMetricSets(integration, g,
                               [i \in 1..Len(offsetStructs) |->
                                   [sample     |-> offsetStructs[i],
                                    marshalled |-> i \notin bad]])
         /\ logs' = LogTimes(logs, <<"error", "marshal", <<g>>>>, Cardinality(bad))

\* ----------------------------------------------------- Collect: static mode

\* What fillTopicPartitions may resolve a group's topics to.
FillTopicPartitions == {{}, Keys}

\* Mutant: the `continue` after the log is missing.
StaticNextGroupNoContinue ==
    /\ pc = "static"
    /\ cur = 0
    /\ \E g \in remaining, tp \in FillTopicPartitions :
         /\ remaining' = remaining \ {g}
         /\ logs' = IF tp = {} THEN LogAdd(logs, <<"error", "noTopics", <<g>>>>) ELSE logs
         /\ cur' = g
         /\ job' = job @@ (g :> NewJob(g, "static", tp))
    /\ UNCHANGED <<envVars, entered, failed, pc, ret, handleVars, regexVars, integration>>

\* for consumerGroup, topics := range args.GlobalArgs.ConsumerGroups, up to
\* the check of len(topicPartitions): a group with none is logged and skipped.
StaticNextGroup ==
    /\ pc = "static"
    /\ cur = 0
    /\ \E g \in remaining, tp \in FillTopicPartitions :
         /\ remaining' = remaining \ {g}
         /\ IF tp = {}
            THEN /\ logs' = LogAdd(logs, <<"error", "noTopics", <<g>>>>)
                 /\ UNCHANGED <<cur, job>>
            ELSE /\ cur' = g
                 /\ job' = job @@ (g :> NewJob(g, "static", tp))
                 /\ UNCHANGED logs
    /\ UNCHANGED <<envVars, entered, failed, pc, ret, handleVars, regexVars, integration>>

\* The statement the static loop runs next for the group it is collecting.
StaticAt(p) == pc = "static" /\ cur # 0 /\ job[cur].pc = p

\* getConsumerOffsets(consumerGroup, topicPartitions, client) is invoked.
StaticCallOffsets ==
    /\ StaticAt("start")
    /\ job' = [job EXCEPT ![cur].pc = "offsets", ![cur].offsetErr = "called"]
    /\ UNCHANGED <<envVars, entered, failed, pc, ret, handleVars, regexVars, staticVars, integration, logs>>

\* Mutant: a failed offset read ends the loop over the configured groups.
StaticGetConsumerOffsetsBreak ==
    /\ StaticAt("offsets")
    /\ Answers(cur)
    /\ \E e \in Outcomes :
         /\ logs' = IF e = "nil" THEN logs
                    ELSE LogAdd(logs, <<"info", "consumerOffsets", <<cur>>>>)
         /\ IF e = "nil"
            THEN /\ job' = OffsetsReturned(cur, e)
                 /\ UNCHANGED staticVars
            ELSE /\ job' = [OffsetsReturned(cur, e) EXCEPT ![cur].pc = "done"]
                 /\ cur' = 0
                 /\ remaining' = {}
    /\ UNCHANGED <<envVars, entered, failed, pc, ret, handleVars, regexVars, integration>>

\* It returns; an error is logged and the loop goes on.
StaticGetConsumerOffsets ==
    /\ StaticAt("offsets")
    /\ Answers(cur)
    /\ \E e \in Outcomes :
         /\ job' = OffsetsReturned(cur, e)
         /\ logs' = IF e = "nil" THEN logs
                    ELSE LogAdd(logs, <<"info", "consumerOffsets", <<cur>>>>)
    /\ UNCHANGED <<envVars, entered, failed, pc, ret, handleVars, regexVars, staticVars, integration>>

\* Mutant: the high-water marks are read before the offsets.
StaticCallHighWaterMarksFirst ==
    /\ StaticAt("start")
    /\ job' = [job EXCEPT ![cur].pc = "hwms", ![cur].hwmErr = "called"]
    /\ UNCHANGED <<envVars, entered, failed, pc, ret, handleVars, regexVars, staticVars, integration, logs>>

\* getHighWaterMarks(topicPartitions, client) is invoked.
StaticCallHighWaterMarks ==
    /\ StaticAt("gotOffsets")
    /\ job' = [job EXCEPT ![cur].pc = "hwms", ![cur].hwmErr = "called"]
    /\ UNCHANGED <<envVars, entered, failed, pc, ret, handleVars, regexVars, staticVars, integration, logs>>

\* Mutant: a failed read of the high-water marks is logged and the group is
\* given up (`continue`): nothing is assembled or submitted for it.
StaticGetHighWaterMarksContinue ==
    /\ StaticAt("hwms")
    /\ \E e \in Outcomes :
         /\ logs' = IF e = "nil" THEN logs
                    ELSE LogAdd(logs, <<"info", "highWaterMarks", <<cur>>>>)
         /\ IF e = "nil"
            THEN /\ job' = HighWaterMarksReturned(cur, e)
                 /\ UNCHANGED staticVars
            ELSE /\ job' = [HighWaterMarksReturned(cur, e) EXCEPT ![cur].pc = "done"]
                 /\ cur' = 0
                 /\ UNCHANGED remaining
    /\ UNCHANGED <<envVars, entered, failed, pc, ret, handleVars, regexVars, integration>>

\* It returns; an error is logged and the loop goes on.
StaticGetHighWaterMarks ==
    /\ StaticAt("hwms")
    /\ \E e \in Outcomes :
         /\ job' = HighWaterMarksReturned(cur, e)
         /\ logs' = IF e = "nil" THEN logs
                    ELSE LogAdd(logs, <<"info", "highWaterMarks", <<cur>>>>)
    /\ UNCHANGED <<envVars, entered, failed, pc, ret, handleVars, regexVars, staticVars, integration>>

\* offsetStructs := populateOffsetStructs(offsetData, highWaterMarks), then
\* setMetrics, whose error is logged; the loop turns to the next group.
StaticSetMetrics ==
    /\ StaticAt("gotHwms")
    /\ LET structs == populateOffsetStructs(job[cur].offsetData, job[cur].highWaterMarks)
       IN  \E e \in Outcomes, bad \in MarshalFailures(Len(structs)) :
             /\ setMetrics(cur, structs, e, bad)
             /\ job' = [job EXCEPT ![cur].pc = "done",
                                   ![cur].offsetStructs = structs,
                                   ![cur].metricsErr = e]
    /\ cur' = 0
    /\ UNCHANGED <<envVars, entered, failed, pc, ret, handleVars, regexVars, remaining>>

\* Mutant: Collect returns an error when a read or a submission of some
\* group failed.
StaticDoneReportsFailures ==
    /\ pc = "static"
    /\ cur = 0
    /\ remaining = {}
    /\ Return(IF \E j \in DOMAIN job : "err" \in {job[j].offsetErr, job[j].hwmErr, job[j].metricsErr}
              THEN "errGroupFailed"
              ELSE "nil")
    /\ UNCHANGED <<envVars, entered, failed, handleVars, regexVars, staticVars, job, integration, logs>>

\* The range is exhausted: Collect returns nil.
StaticDone ==
    /\ pc = "static"
    /\ cur = 0
    /\ remaining = {}
    /\ Return("nil")
    /\ UNCHANGED <<envVars, entered, failed, handleVars, regexVars, staticVars, job, integration, logs>>

\* ------------------------------------- regex mode: the per-group goroutine

\* collectOffsetsForConsumerGroup(client, clusterAdmin, id, members,
\* kafkaIntegration, &wg): the offsets are read, then the high-water marks,
\* the records are assembled and submitted, failures are logged with the
\* group, and the WaitGroup is released as the goroutine ends.
Tasks == {j \in DOMAIN job : job[j].mode = "task"}

TaskAt(j, p) == j \in Tasks /\ job[j].pc = p

TaskCallOffsets(j) ==
    /\ TaskAt(j, "start")
    /\ job' = [job EXCEPT ![j].pc = "offsets", ![j].offsetErr = "called"]
    /\ UNCHANGED <<envVars, entered, failed, pc, ret, handleVars, regexVars, staticVars, integration, logs>>

TaskGetConsumerOffsets(j) ==
    /\ TaskAt(j, "offsets")
    /\ Answers(j)
    /\ \E e \in Outcomes :
         /\ job' = OffsetsReturned(j, e)
         /\ logs' = IF e = "nil" THEN logs
                    ELSE LogAdd(logs, <<"info", "consumerOffsets", <<job[j].group>>>>)
    /\ UNCHANGED <<envVars, entered, failed, pc, ret, handleVars, regexVars, staticVars, integration>>

TaskCallHighWaterMarks(j) ==
    /\ TaskAt(j, "gotOffsets")
    /\ job' = [job EXCEPT ![j].pc = "hwms", ![j].hwmErr = "called"]
    /\ UNCHANGED <<envVars, entered, failed, pc, ret, handleVars, regexVars, staticVars, integration, logs>>

TaskGetHighWaterMarks(j) ==
    /\ TaskAt(j, "hwms")
    /\ \E e \in Outcomes :
         /\ job' = HighWaterMarksReturned(j, e)
         /\ logs' = IF e = "nil" THEN logs
                    ELSE LogAdd(logs, <<"info", "highWaterMarks", <<job[j].group>>>>)
    /\ UNCHANGED <<envVars, entered, failed, pc, ret, handleVars, regexVars, staticVars, integration>>

\* The records are assembled and submitted, and the goroutine ends: wg.Done().
TaskSetMetrics(j) ==
    /\ TaskAt(j, "gotHwms")
    /\ LET structs == populateOffsetStructs(job[j].offsetData, job[j].highWaterMarks)
       IN  \E e \in Outcomes, bad \in MarshalFailures(Len(structs)) :
             /\ setMetrics(job[j].group, structs, e, bad)
             /\ job' = [job EXCEPT ![j].pc = "done",
                                   ![j].offsetStructs = structs,
                                   ![j].metricsErr = e]
    /\ wg' = wg - 1
    /\ UNCHANGED <<envVars, entered, failed, pc, ret, handleVars, consumerGroupList, consumerGroups, idx,
                   numCollected, skippedConsumerGroups, unmatchedConsumerGroups,
                   staticVars>>

TaskStep(j) ==
    \/ TaskCallOffsets(j)
    \/ TaskGetConsumerOffsets(j)
    \/ TaskCallHighWaterMarks(j)
    \/ TaskGetHighWaterMarks(j)
    \/ TaskSetMetrics(j)

\* ---------------------------------------------------------- specifications

Prologue == CreateClient \/ CreateClusterAdmin \/ SelectMode

Epilogue == CloseClusterAdmin \/ CloseClient

RegexMode == ListConsumerGroups \/ DescribeConsumerGroups \/ RegexLoop \/ LogSkipped \/ Wait

StaticMode ==
    \/ StaticNextGroup
    \/ StaticCallOffsets
    \/ StaticGetConsumerOffsets
    \/ StaticCallHighWaterMarks
    \/ StaticGetHighWaterMarks
    \/ StaticSetMetrics
    \/ StaticDone

\* Collect and its goroutines, every interleaving.
Next ==
    \/ Prologue
    \/ RegexMode
    \/ StaticMode
    \/ Epilogue
    \/ \E j \in DOMAIN job : TaskStep(j)

Spec == Init /\ [][Next]_vars

\* A cluster around the group limit, without failures, and the goroutines
\* run one after the other in the order started, once Collect waits.
LargestCluster == GroupLimit + MaxExcess

InitCap ==
    \E first \in 0..2, n \in (GroupLimit - 1)..LargestCluster :
        /\ Start(Regexp(first..LargestCluster), {}, 1..n, FALSE, DefaultOffsets, DefaultHwms)
        /\ hanging = {}

NextInLine ==
    LET pending == {j \in Tasks : job[j].pc # "done"}
    IN  IF pending = {} THEN {}
        ELSE {CHOOSE j \in pending : \A i \in pending : j <= i}

NextCap ==
    \/ Prologue
    \/ RegexMode
    \/ Epilogue
    \/ pc = "wait" /\ \E j \in NextInLine : TaskStep(j)

SpecCap == InitCap /\ [][NextCap]_vars

\* A cluster that may never answer the offset read of one group, with every
\* group selected, by the regex or by the static mapping, and no call that
\* returns an error.  Collect and each goroutine it starts are scheduled
\* fairly: a goroutine that can take a step eventually takes one.
JobIds == 1..(2 * MaxGroups)

InitHang ==
    \E r \in {NoRegex, Regexp(RealGroups)}, h \in {{}} \cup {{g} : g \in RealGroups} :
        /\ Start(r, IF r.isNil THEN RealGroups ELSE {}, IF r.isNil THEN {} ELSE RealGroups,
                 FALSE, DefaultOffsets, DefaultHwms)
        /\ hanging = h

CollectStep == Prologue \/ RegexMode \/ StaticMode \/ Epilogue

Fairness == WF_vars(CollectStep) /\ \A j \in JobIds : WF_vars(TaskStep(j))

SpecHang == InitHang /\ [][Next]_vars /\ Fairness

\* Every kind of skip in one specification: the clusters around the group
\* limit of SpecCap, and, with failures possible, a small cluster of which
\* the regex matches one group, or every group configured statically.
InitSkips ==
    \/ InitCap
    \/ \E r \in {NoRegex, Regexp({1})} :
          /\ Start(r, IF r.isNil THEN RealGroups ELSE {}, IF r.isNil THEN {} ELSE RealGroups,
                   TRUE, DefaultOffsets, DefaultHwms)
          /\ hanging = {}

\* The goroutines that may take a step: any of them in the small cluster, the
\* next in line, once Collect waits, in the large one.
Runnable ==
    IF faults THEN DOMAIN job
    ELSE IF pc = "wait" THEN NextInLine
    ELSE {}

NextSkips ==
    \/ Prologue
    \/ RegexMode
    \/ StaticMode
    \/ Epilogue
    \/ \E j \in Runnable : TaskStep(j)

SpecSkips == InitSkips /\ [][NextSkips]_vars

\* One statically configured group over every cluster content, without
\* failures: a failed read leaves the nil map, which is the snapshot of a
\* cluster holding no key.
Optionals == {None} \cup {Some(v) : v \in 0..MaxOffset}

Snapshots == UNION {[D -> Optionals] : D \in SUBSET Keys}

InitAssemble ==
    \E bo \in Snapshots, bh \in Snapshots :
        /\ Start(NoRegex, {1}, {}, FALSE, bo, bh)
        /\ hanging = {}

NextAssemble == Prologue \/ StaticMode \/ Epilogue

SpecAssemble == InitAssemble /\ [][NextAssemble]_vars

\* ------------------------------------------------------------------ claims

HasReturned == ret # "running"

ReadDone(e) == e \in {"nil", "err"}

\* The entries of consumerGroups whose id the regex matches.
MatchedEntries == {i \in 1..Len(consumerGroups) : MatchString(regex, consumerGroups[i].GroupId)}

\* C1: whenever the high-water-mark read of a group has been invoked, the
\* offset read of that group has already returned, with its snapshot (or its
\* error) captured; the two reads of one group are never in flight together.
C1_OffsetsBeforeHighWaterMarks ==
    \A j \in DOMAIN job :
        /\ job[j].hwmErr # "none" =>
              /\ ReadDone(job[j].offsetErr)
              /\ job[j].offsetData =
                    (IF job[j].offsetErr = "nil"
                     THEN Snapshot(backendOffsets, job[j].topicPartitions)
                     ELSE NilSnapshot)
        /\ ~(job[j].offsetErr = "called" /\ job[j].hwmErr = "called")

\* A static group whose offset read failed and whose high-water-mark read is
\* in flight.
C1_Witness ==
    \E j \in DOMAIN job :
        /\ job[j].mode = "static"
        /\ job[j].offsetErr = "err"
        /\ job[j].hwmErr = "called"

\* C2: in regex mode at most GroupLimit (200) goroutines are started, and
\* once Collect has returned every matching entry without a goroutine is in
\* the skipped list, which was logged once.
C2_AtMostGroupLimitTasks ==
    /\ Cardinality(Tasks) <= GroupLimit
    /\ Tasks \subseteq MatchedEntries
    /\ (pc = "returned" /\ ret = "nil" /\ ~regex.isNil) =>
          LET unstarted == MatchedEntries \ Tasks
          IN  /\ Len(skippedConsumerGroups) = Cardinality(unstarted)
              /\ \A i \in unstarted :
                    \E k \in 1..Len(skippedConsumerGroups) :
                        skippedConsumerGroups[k] = consumerGroups[i].GroupId
              /\ unstarted # {} =>
                    LogCount(logs, <<"debug", "skipped", skippedConsumerGroups>>) = 1

\* More entries match than the limit: 200 goroutines ran and the others
\* were skipped and logged.
C2_Witness ==
    /\ pc = "returned"
    /\ Cardinality(Tasks) = GroupLimit
    /\ Cardinality(MatchedEntries) >= GroupLimit + 2
    /\ Len(skippedConsumerGroups) >= 2
    /\ LogCount(logs, <<"debug", "skipped", skippedConsumerGroups>>) = 1

\* C3: once Collect has returned, no goroutine it started is still running.
C3_ReturnsAfterAllTasks ==
    HasReturned => \A j \in Tasks : job[j].pc = "done"

\* Collect has returned after two goroutines ran.
C3_Witness ==
    /\ pc = "returned"
    /\ ret = "nil"
    /\ Cardinality(Tasks) >= 2

\* C4: when ListConsumerGroups or DescribeConsumerGroups has failed, Collect
\* has returned that error, no goroutine was started and nothing was emitted.
C4_DiscoveryFailureAborts ==
    /\ "ListConsumerGroups" \in failed =>
          /\ ret = "errListConsumerGroups"
          /\ job = <<>>
          /\ integration = <<>>
          /\ wg = 0
    /\ "DescribeConsumerGroups" \in failed =>
          /\ ret = "errDescribeConsumerGroups"
          /\ job = <<>>
          /\ integration = <<>>
          /\ wg = 0

\* DescribeConsumerGroups failed for a cluster with a group the regex matches.
C4_Witness ==
    /\ pc = "returned"
    /\ "DescribeConsumerGroups" \in failed
    /\ clusterGroups \cap regex.matches # {}

\* C5: with neither a regex nor static groups configured Collect never
\* lists, reads, starts a goroutine or emits, and what it returns is an error.
C5_NotConfiguredIsAnError ==
    (regex.isNil /\ staticGroups = {}) =>
        /\ pc \in {"CreateClient", "CreateClusterAdmin", "selectMode",
                    "closeClusterAdmin", "closeClient", "returned"}
        /\ ret \in {"running", "errCreateClient", "errCreateClusterAdmin", "errNotConfigured"}
        /\ failed = {} => ret \in {"running", "errNotConfigured"}
        /\ consumerGroupList = <<>>
        /\ consumerGroups = <<>>
        /\ job = <<>>
        /\ integration = <<>>
        /\ wg = 0

\* Both handles were created and Collect returned the configuration error.
C5_Witness ==
    /\ pc = "returned"
    /\ ret = "errNotConfigured"
    /\ regex.isNil
    /\ staticGroups = {}

\* The errors that end Collect before any group is selected.
AbortErrors == {"errCreateClient", "errCreateClusterAdmin", "errNotConfigured",
                "errListConsumerGroups", "errDescribeConsumerGroups"}

\* Collection j has read both snapshots, assembled its records and handed
\* them to setMetrics.
Collected(j) ==
    /\ j \in DOMAIN job
    /\ job[j].pc = "done"
    /\ ReadDone(job[j].offsetErr)
    /\ ReadDone(job[j].hwmErr)
    /\ ReadDone(job[j].metricsErr)
    /\ job[j].offsetStructs = populateOffsetStructs(job[j].offsetData, job[j].highWaterMarks)
    /\ job[j].metricsErr = "nil" =>
          /\ job[j].group \in DOMAIN integration
          /\ Len(integration[job[j].group]) >= Len(job[j].offsetStructs)

SkipLogged(g) == LogCount(logs, <<"error", "noTopics", <<g>>>>)

\* C6: when Collect has returned after selecting groups, every selected group
\* was read, assembled and submitted, whichever calls of the others failed;
\* a static group without topic-partitions was logged instead.
C6_FailuresAreIsolated ==
    (pc = "returned" /\ ret \notin AbortErrors) =>
        /\ regex.isNil =>
              \A g \in staticGroups :
                  Collected(g) \/ (g \notin DOMAIN job /\ SkipLogged(g) = 1)
        /\ ~regex.isNil =>
              \A i \in MatchedEntries :
                  Cardinality(MatchedEntries) <= GroupLimit => Collected(i)

\* Two static groups: both reads and the emission of one failed, the other
\* was collected and emitted.
C6_Witness ==
    /\ pc = "returned"
    /\ \E g \in staticGroups, h \in staticGroups :
         /\ Collected(g)
         /\ job[g].offsetErr = "err"
         /\ job[g].hwmErr = "err"
         /\ job[g].metricsErr = "err"
         /\ Collected(h)
         /\ job[h].offsetErr = "nil"
         /\ job[h].hwmErr = "nil"
         /\ job[h].metricsErr = "nil"
         /\ Len(integration[h]) = 1

\* C7: a handle is closed at most once, and only after Collect has returned
\* with every collection finished; once Collect has left, every handle it
\* created has been closed exactly once.
C7_HandlesClosedOnce ==
    /\ client.closes <= 1
    /\ clusterAdmin.closes <= 1
    /\ (client.closes > 0 \/ clusterAdmin.closes > 0) =>
          /\ HasReturned
          /\ cur = 0
          /\ wg = 0
          /\ \A j \in DOMAIN job : job[j].pc = "done"
    /\ pc = "returned" =>
          /\ client.state # "open"
          /\ clusterAdmin.state # "open"
          /\ "CreateClient" \notin failed =>
                client.state = "closed" /\ client.closes = 1
          /\ failed \cap {"CreateClient", "CreateClusterAdmin"} = {} =>
                clusterAdmin.state = "closed" /\ clusterAdmin.closes = 1

\* The cluster admin could not be created: the client was closed once.
C7_Witness ==
    /\ pc = "returned"
    /\ ret = "errCreateClusterAdmin"
    /\ client.closes = 1
    /\ clusterAdmin.closes = 0

\* The metric sets emitted for the group of collection j.
Emitted(j) == IF job[j].group \in DOMAIN integration THEN integration[job[j].group] ELSE <<>>

\* C8: for every key whose committed offset o and high-water mark h the
\* cluster holds, a group read without error emits a record for that key
\* whose lag is h - o, negative or not.
C8_LagIsExact ==
    \A j \in DOMAIN job :
        (job[j].pc = "done" /\ job[j].offsetErr = "nil" /\ job[j].hwmErr = "nil"
            /\ job[j].metricsErr = "nil") =>
            \A k \in job[j].topicPartitions \cap DOMAIN backendOffsets \cap DOMAIN backendHwms :
                (backendOffsets[k] # None /\ backendHwms[k] # None) =>
                    \E i \in 1..Len(Emitted(j)) :
                        /\ Emitted(j)[i].sample.Topic = TopicOf(k)
                        /\ Emitted(j)[i].sample.Partition = PartitionOf(k)
                        /\ Emitted(j)[i].sample.ConsumerOffset = backendOffsets[k]
                        /\ Emitted(j)[i].sample.HighWaterMark = backendHwms[k]
                        /\ Emitted(j)[i].sample.ConsumerLag =
                              {h - o : h \in backendHwms[k], o \in backendOffsets[k]}

\* A record was emitted whose offset is past the high-water mark.
C8_Witness ==
    \E j \in DOMAIN job :
        /\ job[j].pc = "done"
        /\ \E i \in 1..Len(Emitted(j)) :
              \E v \in Emitted(j)[i].sample.ConsumerLag : v < 0

\* The key a record is about.
KeyOf(rec) == CHOOSE k \in Keys : TopicOf(k) = rec.Topic /\ PartitionOf(k) = rec.Partition

\* C9: the records assembled for a group are one per key of the union of the
\* two snapshots' keys; a record carries each snapshot's value for its key,
\* nil where the snapshot lacks the key, and a nil lag unless both are set.
C9_OneRecordPerKeyOfEitherSnapshot ==
    \A j \in DOMAIN job :
        job[j].pc = "done" =>
            LET recs == job[j].offsetStructs
                O    == job[j].offsetData
                H    == job[j].highWaterMarks
            IN  /\ Len(recs) = Cardinality(DOMAIN O \cup DOMAIN H)
                /\ \A k \in DOMAIN O \cup DOMAIN H :
                      \E i \in 1..Len(recs) : KeyOf(recs[i]) = k
                /\ \A i \in 1..Len(recs) :
                      LET k == KeyOf(recs[i])
                      IN  /\ recs[i].ConsumerOffset = (IF k \in DOMAIN O THEN O[k] ELSE None)
                          /\ recs[i].HighWaterMark = (IF k \in DOMAIN H THEN H[k] ELSE None)
                          /\ (recs[i].ConsumerOffset = None \/ recs[i].HighWaterMark = None)
                                => recs[i].ConsumerLag = None

\* One key is in the offset snapshot only and another in the high-water
\* marks only.
C9_Witness ==
    \E j \in DOMAIN job :
        /\ job[j].pc = "done"
        /\ DOMAIN job[j].offsetData \ DOMAIN job[j].highWaterMarks # {}
        /\ DOMAIN job[j].highWaterMarks \ DOMAIN job[j].offsetData # {}
        /\ Len(job[j].offsetStructs) = 2

\* Static mode has been entered: its deprecation warning was logged.
StaticEntered == LogCount(logs, <<"warn", "deprecated", <<>>>>) = 1

\* C10: in static mode a visited group without topic-partitions has one
\* skip-log entry, no read and no record; a group with topic-partitions has
\* no skip-log entry; and when Collect returns every configured group was
\* either skipped so or collected.
C10_EmptyStaticGroupIsSkipped ==
    StaticEntered =>
        /\ \A g \in staticGroups \ remaining :
              IF g \in DOMAIN job
              THEN job[g].topicPartitions # {} /\ SkipLogged(g) = 0
              ELSE /\ SkipLogged(g) = 1
                   /\ g \notin DOMAIN integration
                   /\ LogCount(logs, <<"info", "consumerOffsets", <<g>>>>) = 0
                   /\ LogCount(logs, <<"info", "highWaterMarks", <<g>>>>) = 0
        /\ pc = "returned" =>
              /\ ret = "nil"
              /\ remaining = {}
              /\ \A g \in staticGroups : g \in DOMAIN job => job[g].pc = "done"

\* One configured group was skipped and another collected and emitted.
C10_Witness ==
    /\ pc = "returned"
    /\ StaticEntered
    /\ \E g \in staticGroups, h \in staticGroups :
         /\ g \notin DOMAIN job
         /\ SkipLogged(g) = 1
         /\ h \in DOMAIN job
         /\ job[h].pc = "done"
         /\ h \in DOMAIN integration
         /\ Len(integration[h]) = 1

\* What regex mode alone does: listing and describing the groups of the
\* cluster, and starting goroutines.
RegexDiscovery ==
    \/ pc \in {"ListConsumerGroups", "DescribeConsumerGroups", "loop", "wait"}
    \/ failed \cap {"ListConsumerGroups", "DescribeConsumerGroups"} # {}
    \/ consumerGroupList # <<>>
    \/ consumerGroups # <<>>
    \/ Tasks # {}

\* What static mode alone does: the deprecation warning, and the loop over
\* the configured groups with its inline collections.
StaticCollection ==
    \/ StaticEntered
    \/ pc = "static"
    \/ remaining # {}
    \/ cur # 0
    \/ DOMAIN job \ Tasks # {}

\* C11: no run performs both regex discovery (listing, describing, starting
\* goroutines) and static collection, whatever the configuration: Collect
\* takes at most one branch of the mode selection, the regex branch whenever
\* a regex is configured, and does the work of the branch it took only.
C11_OneModePerRun ==
    /\ Cardinality(entered) <= 1
    /\ ~regex.isNil => "static" \notin entered
    /\ RegexDiscovery => entered = {"regex"}
    /\ StaticCollection => entered = {"static"}
    /\ ~(RegexDiscovery /\ StaticCollection)

\* Both a regex and a static mapping are configured, and Collect has returned
\* after collecting the matching groups in goroutines.
C11_Witness ==
    /\ ~regex.isNil
    /\ staticGroups # {}
    /\ pc = "returned"
    /\ ret = "nil"
    /\ \E j \in Tasks : Collected(j)
    /\ entered = {"regex"}

\* The collections of group g.
JobsOf(g) == {j \in DOMAIN job : job[j].group = g}

\* C12: when the offset read of a group fails, the snapshot handed to the
\* assembly holds no committed offset for any partition, so no record
\* assembled for the group, and no metric set emitted for a group all of
\* whose offset reads failed, carries a consumer offset or a lag.
C12_FailedOffsetReadLeavesNoOffsets ==
    /\ \A j \in DOMAIN job :
          job[j].offsetErr = "err" =>
              /\ job[j].offsetData = NilSnapshot
              /\ \A i \in 1..Len(job[j].offsetStructs) :
                    /\ job[j].offsetStructs[i].ConsumerOffset = None
                    /\ job[j].offsetStructs[i].ConsumerLag = None
    /\ \A g \in DOMAIN integration :
          (\A j \in JobsOf(g) : job[j].offsetErr = "err") =>
              \A i \in 1..Len(integration[g]) :
                  /\ integration[g][i].sample.ConsumerOffset = None
                  /\ integration[g][i].sample.ConsumerLag = None

\* The offset read of a group failed, its high-water marks were read, and a
\* record with the high-water mark alone was emitted.
C12_Witness ==
    \E j \in DOMAIN job :
        /\ job[j].pc = "done"
        /\ job[j].offsetErr = "err"
        /\ job[j].hwmErr = "nil"
        /\ job[j].metricsErr = "nil"
        /\ Len(Emitted(j)) > 0
        /\ \A i \in 1..Len(Emitted(j)) :
              /\ Emitted(j)[i].sample.HighWaterMark # None
              /\ Emitted(j)[i].sample.ConsumerOffset = None

\* The goroutines that have written to kafkaIntegration: setMetrics found or
\* created the entity of their group in it and appended their metric sets.
IntegrationWriters == {j \in Tasks : job[j].pc = "done" /\ job[j].metricsErr = "nil"}

\* C13: the goroutines write no shared mutable state: no object reachable
\* from two of them, the integration value passed to each included, is
\* written by both.
C13_NoObjectWrittenByTwoTasks == Cardinality(IntegrationWriters) <= 1

\* The collection of static group cur waits for an offset read that never
\* returns.
StaticStuck == pc = "static" /\ cur # 0 /\ job[cur].pc = "offsets" /\ ~Answers(cur)

\* Entry i of the described groups is selected, and its offset read returns.
SelectedTask(i) ==
    /\ pc = "loop"
    /\ i \in MatchedEntries
    /\ Cardinality(MatchedEntries) <= GroupLimit
    /\ consumerGroups[i].GroupId \notin hanging

\* The statically configured group g is selected, and its offset read returns.
SelectedStatic(g) == pc = "static" /\ g \in staticGroups /\ g \notin hanging

\* The visit of static group g is over: collected, or skipped for want of
\* topic-partitions.
StaticVisited(g) == Collected(g) \/ SkipLogged(g) >= 1

\* C14 as stated: a backend call that never returns for one selected group
\* blocks only that group; under fairness the collection of every other
\* selected group completes and submits, in regex mode and in static mode.
C14_HangBlocksOnlyItsGroup ==
    /\ \A i \in JobIds : SelectedTask(i) ~> Collected(i)
    /\ \A g \in RealGroups : SelectedStatic(g) ~> StaticVisited(g)

\* C14, amended: in regex mode a backend call that never returns for one
\* group blocks only that group's goroutine: under fairness every other
\* selected group is collected and submitted, and Collect does not return.
\* In static mode the groups are collected one after the other inside
\* Collect: a call that never returns blocks Collect and with it every group
\* not yet visited.
C14_HangBlocksOnlyItsTask ==
    /\ \A i \in JobIds : SelectedTask(i) ~> Collected(i)
    /\ [](HasReturned => \A j \in DOMAIN job : job[j].pc = "done")
    /\ [](StaticStuck => [](/\ StaticStuck
                            /\ ~HasReturned
                            /\ \A g \in remaining : g \notin DOMAIN job))

\* In regex mode the goroutine of one group waits for an offset read that
\* never returns, the other selected group has been collected and submitted,
\* and Collect waits.
C14_Witness ==
    /\ pc = "wait"
    /\ \E j \in Tasks : job[j].pc = "offsets" /\ ~Answers(j)
    /\ \E i \in Tasks : Collected(i) /\ job[i].metricsErr = "nil" /\ Answers(i)
    /\ \A i \in Tasks : Answers(i) => job[i].pc = "done"

\* C15: skipped groups and failed reads or submissions of single groups are
\* never Collect's error: once a mode was entered, Collect returns nil unless
\* listing or describing the groups failed, and it returns nil in no other
\* case.
C15_SkipsAndFailuresReturnSuccess ==
    HasReturned => (ret = "nil" <=> (entered # {} /\ failed = {}))

\* Collect has returned nil from static mode although one group was skipped
\* for want of topic-partitions and the others' offset read and submission
\* failed.
C15_Witness ==
    /\ pc = "returned"
    /\ ret = "nil"
    /\ \E g \in staticGroups : SkipLogged(g) = 1
    /\ \E j \in DOMAIN job : job[j].offsetErr = "err" /\ job[j].metricsErr = "err"

RECURSIVE LogTotal(_, _)
LogTotal(l, E) ==
    IF E = {} THEN 0
    ELSE LET e == CHOOSE x \in E : TRUE
         IN  l[e] + LogTotal(l, E \ {e})

\* The log messages of one kind, e.g. "unmatched", written so far.
KindCount(kind) == LogTotal(logs, {e \in DOMAIN logs : e[2] = kind})

\* The ids of the described groups the regex does not match, in order.
UnmatchedIds ==
    LET NotMatched(d) == ~MatchString(regex, d.GroupId)
        ds == SelectSeq(consumerGroups, NotMatched)
    IN  [i \in 1..Len(ds) |-> ds[i].GroupId]

\* The ids of the matching described groups beyond the first GroupLimit, in
\* order.
OverLimitIds ==
    LET Matched(d) == MatchString(regex, d.GroupId)
        ds == SelectSeq(consumerGroups, Matched)
    IN  [i \in 1..(IF Len(ds) > GroupLimit THEN Len(ds) - GroupLimit ELSE 0) |->
            ds[GroupLimit + i].GroupId]

\* The two log.Debug calls of regex mode are behind Collect.
RegexLogged == "regex" \in entered /\ (pc = "wait" \/ (HasReturned /\ ret = "nil"))

\* The static groups visited and skipped for want of topic-partitions.
StaticSkipped == {g \in staticGroups \ remaining : g \notin DOMAIN job}

\* C16 as stated: each kind of skip (unmatched groups, groups beyond the
\* limit, static groups without topic-partitions) produces at most one log
\* message per run, however many groups are skipped.
C16_OneMessagePerKindOfSkip ==
    /\ KindCount("unmatched") <= 1
    /\ KindCount("skipped") <= 1
    /\ KindCount("noTopics") <= 1

\* C16, amended: the unmatched groups and the groups beyond the limit are
\* each logged at most once per run, in one message carrying the whole list,
\* and not at all when the list is empty; a static group without
\* topic-partitions is logged by a message of its own, one per such group.
C16_ListsLoggedOnceStaticSkipsPerGroup ==
    /\ KindCount("unmatched") <= 1
    /\ KindCount("skipped") <= 1
    /\ RegexLogged =>
          /\ KindCount("unmatched") = (IF unmatchedConsumerGroups = <<>> THEN 0 ELSE 1)
          /\ KindCount("skipped") = (IF skippedConsumerGroups = <<>> THEN 0 ELSE 1)
          /\ unmatchedConsumerGroups # <<>> =>
                LogCount(logs, <<"debug", "unmatched", unmatchedConsumerGroups>>) = 1
          /\ skippedConsumerGroups # <<>> =>
                LogCount(logs, <<"debug", "skipped", skippedConsumerGroups>>) = 1
    /\ pc = "returned" /\ ret = "nil" /\ "regex" \in entered =>
          /\ unmatchedConsumerGroups = UnmatchedIds
          /\ skippedConsumerGroups = OverLimitIds
    /\ "static" \in entered =>
          /\ KindCount("noTopics") = Cardinality(StaticSkipped)
          /\ \A g \in staticGroups : SkipLogged(g) = (IF g \in StaticSkipped THEN 1 ELSE 0)

\* Regex mode over a cluster beyond the limit: several unmatched and several
\* over-limit groups, each list logged in one message.
C16_Witness ==
    /\ pc = "returned"
    /\ Len(unmatchedConsumerGroups) >= 2
    /\ Len(skippedConsumerGroups) >= 2
    /\ KindCount("unmatched") = 1
    /\ KindCount("skipped") = 1

\* The records of collection j are one per key of content among its
\* topic-partitions, and the record of a key carries offset o, high-water
\* mark h and no lag.
Carries(j, content, o, h) ==
    LET ks == Ascending(job[j].topicPartitions \cap DOMAIN content)
    IN  /\ Len(job[j].offsetStructs) = Len(ks)
        /\ \A i \in 1..Len(ks) :
              /\ job[j].offsetStructs[i].Topic = TopicOf(ks[i])
              /\ job[j].offsetStructs[i].Partition = PartitionOf(ks[i])
              /\ job[j].offsetStructs[i].ConsumerOffset = o[ks[i]]
              /\ job[j].offsetStructs[i].HighWaterMark = h[ks[i]]
              /\ job[j].offsetStructs[i].ConsumerLag = None

\* A snapshot without a value for any key.
Absent == [k \in Keys |-> None]

\* The snapshot content, None for a key it does not hold.
Present(content) == [k \in Keys |-> Lookup(content, k)]

\* C17: a finished collection has attempted both reads and the submission;
\* when exactly one read failed, the records are still assembled and handed
\* to setMetrics, they carry the values of the read that succeeded, and the
\* failed read's value and the lag are missing from them.
C17_OneFailedReadStillSubmits ==
    \A j \in DOMAIN job :
        job[j].pc = "done" =>
            /\ ReadDone(job[j].offsetErr)
            /\ ReadDone(job[j].hwmErr)
            /\ ReadDone(job[j].metricsErr)
            /\ (job[j].offsetErr = "err" /\ job[j].hwmErr = "nil") =>
                  /\ Carries(j, backendHwms, Absent, Present(backendHwms))
                  /\ job[j].metricsErr = "nil" =>
                        Len(Emitted(j)) >= Len(job[j].offsetStructs)
            /\ (job[j].offsetErr = "nil" /\ job[j].hwmErr = "err") =>
                  /\ Carries(j, backendOffsets, Present(backendOffsets), Absent)
                  /\ job[j].metricsErr = "nil" =>
                        Len(Emitted(j)) >= Len(job[j].offsetStructs)

\* In static mode the read of the high-water marks failed after the offsets
\* were read, and a record with the offset alone was emitted.
C17_Witness ==
    \E j \in DOMAIN job :
        /\ job[j].mode = "static"
        /\ job[j].pc = "done"
        /\ job[j].offsetErr = "nil"
        /\ job[j].hwmErr = "err"
        /\ job[j].metricsErr = "nil"
        /\ Len(Emitted(j)) > 0
        /\ \A i \in 1..Len(Emitted(j)) :
              /\ Emitted(j)[i].sample.ConsumerOffset # None
              /\ Emitted(j)[i].sample.HighWaterMark = None
              /\ Emitted(j)[i].sample.ConsumerLag = None

\* The positions of the first GroupLimit matching entries of the described
\* groups, in the order returned.
FirstMatched ==
    LET IsMatched(i) == MatchString(regex, consumerGroups[i].GroupId)
        ms == SelectSeq([i \in 1..Len(consumerGroups) |-> i], IsMatched)
    IN  {ms[k] : k \in 1..(IF Len(ms) > GroupLimit THEN GroupLimit ELSE Len(ms))}

\* C18: in regex mode every described group the loop has passed has exactly
\* one outcome: a goroutine, the skipped list, or the unmatched list.  The
\* goroutines are those of the first min(GroupLimit, m) matching entries in
\* the order returned, so a non-matching id never has one; after the loop
\* the unmatched list holds the ids the regex does not match and the skipped
\* list the matching ids beyond the limit.
C18_ThreeDisjointOutcomes ==
    /\ Tasks = {i \in FirstMatched : i < idx}
    /\ \A i \in Tasks : job[i].group = consumerGroups[i].GroupId
    /\ Cardinality(Tasks) + Len(skippedConsumerGroups) + Len(unmatchedConsumerGroups) = idx - 1
    /\ \A k \in 1..Len(skippedConsumerGroups) : MatchString(regex, skippedConsumerGroups[k])
    /\ \A k \in 1..Len(unmatchedConsumerGroups) : ~MatchString(regex, unmatchedConsumerGroups[k])
    /\ idx > Len(consumerGroups) =>
          /\ Tasks = FirstMatched
          /\ unmatchedConsumerGroups = UnmatchedIds
          /\ skippedConsumerGroups = OverLimitIds

\* The loop has passed a cluster with more matching groups than the limit:
\* GroupLimit goroutines, the others skipped, the non-matching ids unmatched.
C18_Witness ==
    /\ pc = "loop"
    /\ idx = Len(consumerGroups) + 1
    /\ Cardinality(Tasks) = GroupLimit
    /\ Cardinality(MatchedEntries) > GroupLimit
    /\ skippedConsumerGroups # <<>>
    /\ unmatchedConsumerGroups # <<>>

\* C19: the id list handed to DescribeConsumerGroups holds exactly the group
\* ids ListConsumerGroups returned as keys, each once, and no other entry,
\* in particular no empty id.
C19_DescribedIdsAreTheListedKeys ==
    pc = "DescribeConsumerGroups" =>
        /\ Len(consumerGroupList) = Cardinality(clusterGroups)
        /\ Range(consumerGroupList) = clusterGroups
        /\ \A i \in 1..Len(consumerGroupList) : consumerGroupList[i] # EmptyId

====
